---- MODULE Spec2Model ----
(***************************************************************************)
(* A model of the mdbook-drawio preprocessor (src/src/lib.rs).             *)
(*                                                                         *)
(* Text is modelled at the level of characters: a string is a sequence of  *)
(* one-character strings.  The directive regex, the page parser, the path  *)
(* helpers of std::path and the string formatting are operators on such    *)
(* sequences; the walk over the book, the per-match substitution, the      *)
(* freshness check and the renderer subprocess are the actions.            *)
(*                                                                         *)
(* The filesystem: a file written now carries the current time, no diagram *)
(* source carries a time later than now, and the author edits sources      *)
(* between two builds, not during one.  The renderer is any program: it    *)
(* may not start, may exit with or without success, and may or may not     *)
(* leave the output file (it cannot without its input file).               *)
(***************************************************************************)
EXTENDS Integers, Sequences, FiniteSets, TLC

\* ------------------------------------------------------------------ bounds

\* Number of builds (invocations of run) in one behaviour.
MaxRuns == 2

\* ------------------------------------------------------- character strings

\* An absent optional string (Option<&str>::None): no string the program
\* tests for absence is ever empty.
None == <<>>

Slash == "/"
Dot == "."
Quote == "\""

DigitChars == <<"0", "1", "2", "3", "4", "5", "6", "7", "8", "9">>

\* The literal pieces of the directive regex (lib.rs:133).
OpenLit == <<"{", "{", "#", "d", "r", "a", "w", "i", "o">>
PathLit == <<"p", "a", "t", "h", "=", "\"">>
PageLit == <<"p", "a", "g", "e", "=">>
CloseLit == <<"}", "}">>

\* Character classes of the regex: \s, [^"], [0-9], [^}].
InClass(cls, c) ==
    CASE cls = "space" -> c \in {" ", "\t", "\n", "\r", "\f"}
      [] cls = "notquote" -> c # Quote
      [] cls = "digit" -> \E k \in 1..10 : DigitChars[k] = c
      [] cls = "notbrace" -> c # "}"

\* One past the end of the longest run of characters of a class that starts
\* at index i (the greedy repetition of a one-character class).
RECURSIVE RunEnd(_, _, _)
RunEnd(cls, s, i) ==
    IF i <= Len(s) /\ InClass(cls, s[i]) THEN RunEnd(cls, s, i + 1) ELSE i

HasLit(s, i, lit) ==
    /\ i + Len(lit) - 1 <= Len(s)
    /\ SubSeq(s, i, i + Len(lit) - 1) = lit

NoMatch == [ok |-> FALSE]

\* The positions the regex reaches when it is anchored at index i.  Every
\* repetition is greedy and is followed by a character outside its class
\* (or, for [0-9]+[^}]*, by a class that contains it), so the longest run is
\* the only split the regex engine can accept.
MatchEnds(s, i, minPage) ==
    LET p1 == i + Len(OpenLit)
        p2 == RunEnd("space", s, p1)
        p3 == p2 + Len(PathLit)
        p4 == RunEnd("notquote", s, p3)
        p5 == p4 + 1
        p6 == RunEnd("space", s, p5)
        p7 == p6 + Len(PageLit)
        p8 == RunEnd("digit", s, p7)
        p9 == RunEnd("notbrace", s, p8)
        ok == /\ HasLit(s, i, OpenLit)
              /\ p2 > p1
              /\ HasLit(s, p2, PathLit)
              /\ p4 > p3
              /\ HasLit(s, p4, <<Quote>>)
              /\ p6 > p5
              /\ HasLit(s, p6, PageLit)
              /\ p8 >= p7 + minPage
              /\ HasLit(s, p9, CloseLit)
    IN  IF ok
        THEN [ok |-> TRUE, start |-> i, end |-> p9 + Len(CloseLit),
              path |-> SubSeq(s, p3, p4 - 1), page |-> SubSeq(s, p7, p8 - 1)]
        ELSE NoMatch

\* A variant of the regex whose page group is ([0-9]*): the page may be empty.
MatchAtEmptyPage(s, i) == MatchEnds(s, i, 0)

\* directive_regex: \{\{#drawio\s+path=\"([^\"]+)\"\s+page=([0-9]+)[^}]*\}\}
MatchAt(s, i) == MatchEnds(s, i, 1)

\* The start of the leftmost match at or after index from, 0 when there is none
\* (the next item of the regex's non-overlapping match iterator).
FindNext(s, from) ==
    LET starts == {i \in from..Len(s) : MatchAt(s, i).ok}
    IN  IF starts = {} THEN 0
        ELSE CHOOSE i \in starts : \A j \in starts : i <= j

\* ------------------------------------------------------------ u32 parsing

U32MaxDigits == <<"4", "2", "9", "4", "9", "6", "7", "2", "9", "5">>

DigitVal(c) == (CHOOSE k \in 1..10 : DigitChars[k] = c) - 1

RECURSIVE StripZeros(_)
StripZeros(d) ==
    IF Len(d) > 1 /\ Head(d) = "0" THEN StripZeros(Tail(d)) ELSE d

\* a <= b for two digit strings of the same length.
RECURSIVE DigitsLeq(_, _)
DigitsLeq(a, b) ==
    IF a = <<>> THEN TRUE
    ELSE IF DigitVal(Head(a)) < DigitVal(Head(b)) THEN TRUE
    ELSE IF DigitVal(Head(a)) > DigitVal(Head(b)) THEN FALSE
    ELSE DigitsLeq(Tail(a), Tail(b))

\* str::parse::<u32>().ok() on the page group, followed by the Display of the
\* value: the value is kept as its canonical decimal digits (what format!
\* prints), None when the string is empty or the value exceeds u32::MAX.
ParseU32(d) ==
    IF d = <<>> THEN None
    ELSE LET n == StripZeros(d)
         IN  IF \/ Len(n) < Len(U32MaxDigits)
                \/ (Len(n) = Len(U32MaxDigits) /\ DigitsLeq(n, U32MaxDigits))
             THEN n
             ELSE None

\* ------------------------------------------------------------ std::path

\* The pieces of a string between separators (str.split('/')).
RECURSIVE SplitSlash(_, _)
SplitSlash(s, acc) ==
    IF s = <<>> THEN <<acc>>
    ELSE IF Head(s) = Slash THEN <<acc>> \o SplitSlash(Tail(s), <<>>)
    ELSE SplitSlash(Tail(s), Append(acc, Head(s)))

\* Path::components of an absolute path: empty pieces and "." are dropped.
Components(p) ==
    LET parts == SplitSlash(p, <<>>)
        keep == {k \in 1..Len(parts) : parts[k] # <<>> /\ parts[k] # <<Dot>>}
        F[k \in 0..Len(parts)] ==
            IF k = 0 THEN <<>>
            ELSE IF k \in keep THEN Append(F[k - 1], parts[k]) ELSE F[k - 1]
    IN  F[Len(parts)]

\* Path::join: an absolute argument replaces the base, otherwise a separator
\* is added unless the base already ends with one.
PathJoin(base, rel) ==
    IF rel # <<>> /\ Head(rel) = Slash THEN rel
    ELSE IF base = <<>> \/ base[Len(base)] = Slash THEN base \o rel
    ELSE base \o <<Slash>> \o rel

\* Path::file_name: the last component, None when the path ends in ".." or
\* has no component at all.
FileName(p) ==
    LET c == Components(p)
    IN  IF c = <<>> \/ c[Len(c)] = <<Dot, Dot>> THEN None ELSE c[Len(c)]

\* Path::file_stem: the file name up to its last '.', the whole name when it
\* has no '.' or only a leading one.
FileStem(p) ==
    LET n == FileName(p)
        dots == IF n = None THEN {} ELSE {k \in 1..Len(n) : n[k] = Dot}
        last == IF dots = {} THEN 0 ELSE CHOOSE k \in dots : \A j \in dots : j <= k
    IN  IF n = None THEN None
        ELSE IF last <= 1 THEN n
        ELSE SubSeq(n, 1, last - 1)
\* ------------------------------------------------- configuration and names

\* ctx.root and ctx.config.book.src of the build.
Root == <<"/", "r">>
BookSrc == <<"s", "r", "c">>
DefaultResultDir == <<"m", "d", "b", "o", "o", "k", "-", "d", "r", "a", "w", "i", "o">>

\* get_result_dir: the configured directory name, or the default.
get_result_dir(cfg) == IF cfg = None THEN DefaultResultDir ELSE cfg

\* get_result_dir_abs: root/src/<result dir>.
get_result_dir_abs(cfg) == PathJoin(PathJoin(Root, BookSrc), get_result_dir(cfg))

\* format!("{}-page-{}.svg", diagram_name, page)
SvgName(stem, page) == stem \o <<"-", "p", "a", "g", "e", "-">> \o page \o <<".", "s", "v", "g">>

\* format!("![Diagram not found at {}]({})", link, link)
Snippet(link) == <<"!", "[", "D", "i", "a", "g", "r", "a", "m", " ", "n", "o", "t", " ", "f", "o", "u", "n", "d", " ", "a", "t", " ">> \o link \o <<"]", "(">> \o link \o <<")">>

RECURSIVE Repeat(_, _)
Repeat(s, n) == IF n = 0 THEN <<>> ELSE s \o Repeat(s, n - 1)

\* The chapter's depth taken from the path itself instead of its parent.
DepthOfPath(path) == IF ~path.some THEN 0 ELSE Len(path.comps)

\* ch.path.as_ref().and_then(|p| p.parent()).map(|p| p.components().count())
\* .unwrap_or(0): the number of directories above the chapter's file.
ChapterDepth(path) ==
    IF ~path.some \/ path.comps = <<>> THEN 0 ELSE Len(path.comps) - 1

\* relative_path_from_chapter: the link from the chapter to the artifact.
relative_path_from_chapter(cfg, path, target) ==
    LET target_filename == FileName(target)
        depth == ChapterDepth(path)
        up_dirs == IF depth = 0 THEN <<Dot>> ELSE Repeat(<<Dot, Dot, Slash>>, depth)
    IN  PathJoin(PathJoin(up_dirs, get_result_dir(cfg)), target_filename)
\* ------------------------------------------------------ the inputs: texts

AX == <<"a", "/", "x", ".", "d", "r", "a", "w", "i", "o">>
BX == <<"b", "/", "x", ".", "d", "r", "a", "w", "i", "o">>
FOO == <<"f", "o", "o", ".", "d", "r", "a", "w", "i", "o">>
UP == <<Dot, Dot>>

\* A directive as an author writes it.
Directive(path, page, extra) ==
    OpenLit \o <<" ">> \o PathLit \o path \o <<Quote, " ">> \o PageLit \o page \o extra \o CloseLit

\* Well-formed occurrences.
TextSee == <<"S", "e", "e", " ">> \o Directive(AX, <<"0">>, <<>>) \o <<" ", "b", "e", "l", "o", "w", ".">>
TextTwoSources == Directive(AX, <<"0">>, <<>>) \o <<"\n">> \o Directive(BX, <<"0">>, <<>>)
TextSamePair == Directive(AX, <<"0">>, <<>>) \o Directive(AX, <<"0", "0">>, <<" ", "w", "=", "1">>)
TextFoo ==
    OpenLit \o <<"\t">> \o PathLit \o FOO \o <<Quote, "\n">> \o PageLit \o <<"1">> \o CloseLit
TextMaxPage == Directive(AX, U32MaxDigits, <<>>)
TextPlain == <<"t", "e", "x", "t">>

\* Directive-like text that misses a quote, the page attribute, or whose
\* page value is not a number.
TextNoOpenQuote ==
    OpenLit \o <<" ">> \o <<"p", "a", "t", "h", "=">> \o AX \o <<Quote, " ">> \o PageLit \o <<"0">> \o CloseLit
TextNoCloseQuote ==
    OpenLit \o <<" ">> \o PathLit \o AX \o <<" ">> \o PageLit \o <<"0">> \o CloseLit
TextNoPage == OpenLit \o <<" ">> \o PathLit \o AX \o <<Quote>> \o CloseLit
TextPageWord == Directive(AX, <<"a", "b", "c">>, <<>>)
TextPageMinus == Directive(AX, <<"-", "1">>, <<>>)
Malformed == {TextNoOpenQuote, TextNoCloseQuote, TextNoPage, TextPageWord, TextPageMinus}

\* Occurrences that match the grammar with a page above u32::MAX, or with a
\* path that has no file name.
TextPageTooBig == Directive(AX, <<"4", "2", "9", "4", "9", "6", "7", "2", "9", "6">>, <<>>)
TextDotDot == Directive(UP, <<"0">>, <<>>)

\* A malformed occurrence in front of a well-formed one.
TextMixed == TextNoCloseQuote \o <<" ">> \o Directive(BX, <<"0">>, <<>>)

\* ------------------------------------------------------ the inputs: books

Chapters == {1, 2, 3}
Ch(c) == [kind |-> "Chapter", ch |-> c]
Separator == [kind |-> "Separator", ch |-> 0]
Some(comps) == [some |-> TRUE, comps |-> comps]
NoPath == [some |-> FALSE, comps |-> <<>>]

\* Book.sections, Chapter.sub_items and Chapter.path of two books: a chapter
\* with a nested chapter followed by a separator and a draft chapter, and a
\* chain nested three deep.
Books ==
    << [sections |-> <<Ch(1), Separator, Ch(3)>>,
        subs |-> << <<Ch(2)>>, <<>>, <<>> >>,
        path |-> << Some(<<"a.md">>), Some(<<"d", "e", "b.md">>), NoPath >>],
       [sections |-> <<Ch(1)>>,
        subs |-> << <<Ch(2)>>, <<Ch(3)>>, <<>> >>,
        path |-> << Some(<<"d", "a.md">>), Some(<<"b.md">>), Some(<<"d", "e", "f", "c.md">>) >>] >>

ResultDirImg == <<"i", "m", "g">>

\* The projects that are built: a book, the value of
\* preprocessor.drawio.result-dir (None when the key is absent) and the text
\* of chapters 1, 2 and 3.
Projects ==
    << [book |-> 1, cfg |-> None, text |-> <<TextSee, TextFoo, TextSee>>],
       [book |-> 2, cfg |-> None, text |-> <<TextTwoSources, TextFoo, TextMaxPage>>],
       [book |-> 1, cfg |-> ResultDirImg, text |-> <<TextSee, TextSamePair, TextPlain>>],
       [book |-> 1, cfg |-> None, text |-> <<TextNoOpenQuote, TextNoCloseQuote, TextPageMinus>>],
       [book |-> 2, cfg |-> ResultDirImg, text |-> <<TextPageWord, TextNoPage, TextMixed>>],
       [book |-> 1, cfg |-> None, text |-> <<TextSee, TextDotDot, TextSee>>],
       [book |-> 2, cfg |-> None, text |-> <<TextPageTooBig, TextFoo, TextPlain>>] >>

\* ------------------------------------------------------------------ state

VARIABLES
    book,       \* the book of this project: an index into Books
    cfg,        \* the configured result-dir (None when the key is absent)
    text,       \* chapter -> the chapter's text as the host loads it
    content,    \* chapter -> ch.content of the book being processed
    pc,         \* idle | walk | replace | done | failed | panicked
    run,        \* number of builds started
    result,     \* what run returned: none | Ok | Err
    stack,      \* the item lists still to iterate, innermost first
    cur,        \* the chapter process_chapter is rewriting
    pos,        \* replace_all: where the search for the next match resumes
    out,        \* replace_all: the text assembled so far
    srcM,       \* diagram source path -> modification time (readable files)
    art,        \* artifact path -> [mtime_ok, mtime] (existing files)
    dirMade,    \* the cache directory exists
    clock,      \* the filesystem's current time
    touched,    \* a diagram source was edited since the last build
    calls,      \* this run's process_match calls, in order
    visited,    \* this run's rewritten chapters, in order
    anyFailed,  \* a renderer of this run did not start, exited with an error or left no file
    lastCheck,  \* the should_generate call of the last step, if it made one
    lastExport, \* the drawio_export call of the last step, if it made one
    startSrc,   \* srcM when this run started
    startArt,   \* art when this run started
    prevOut,    \* content at the end of the previous run
    prevDone,   \* the previous run returned
    prevWritten \* the (source, page) pairs the previous run rendered

vars == <<book, cfg, text, content, pc, run, result, stack, cur, pos, out, srcM, art,
          dirMade, clock, touched, calls, visited, anyFailed, lastCheck, lastExport,
          startSrc, startArt, prevOut, prevDone, prevWritten>>

NoCheck == [called |-> FALSE, exists |-> FALSE, src_ok |-> FALSE, src_t |-> 0,
            art_ok |-> FALSE, art_t |-> 0, regen |-> FALSE]

NoExport == [called |-> FALSE, launched |-> FALSE, exit_ok |-> FALSE,
             existed_after |-> FALSE, result |-> "none"]

\* ------------------------------------------------------------ freshness

\* A check that also regenerates when the two times are equal.
should_generate_ge(input, output) ==
    IF output \notin DOMAIN art THEN TRUE
    ELSE IF input \notin DOMAIN srcM THEN TRUE
    ELSE IF ~art[output].mtime_ok THEN TRUE
    ELSE srcM[input] >= art[output].mtime

\* A check that trusts an artifact whose time cannot be read.
should_generate_trusting(input, output) ==
    IF output \notin DOMAIN art THEN TRUE
    ELSE IF input \notin DOMAIN srcM THEN TRUE
    ELSE IF ~art[output].mtime_ok THEN FALSE
    ELSE srcM[input] > art[output].mtime

\* No cache at all.
should_generate_always(input, output) == TRUE

\* should_generate: regenerate when the output is absent, when either
\* modification time cannot be read, or when the input is newer.
should_generate(input, output) ==
    IF output \notin DOMAIN art THEN TRUE
    ELSE IF input \notin DOMAIN srcM THEN TRUE
    ELSE IF ~art[output].mtime_ok THEN TRUE
    ELSE IF srcM[input] > art[output].mtime THEN TRUE
    ELSE FALSE

\* ------------------------------------------------------------- renderer

\* What the subprocess can do: not start at all, or start, exit with or
\* without success, and write the output file or not.
Outcomes ==
    {o \in [launched : BOOLEAN, exit_ok : BOOLEAN, wrote : BOOLEAN] :
        ~o.launched => (~o.exit_ok /\ ~o.wrote)}

\* drawio_export's return value: Err when cmd.output() fails or the output
\* path does not exist afterwards, Ok otherwise.
drawio_export(launched, exit_ok, exists_after) ==
    IF launched
    THEN IF ~exists_after THEN "Err" ELSE "Ok"
    ELSE "Err"

\* A caller that propagates the export's error (drawio_export(..)?).
propagate_export(res) == IF res = "Err" THEN "failed" ELSE "replace"

\* process_match's drawio_export(..).ok(): the result is dropped and the
\* substitution goes on.
after_export(res) == "replace"

\* ------------------------------------------------------ process_match

\* The values process_match computes from the captures before it consults
\* the cache; panics is TRUE where one of its unwrap calls meets a None.
Resolve(c, caps) ==
    LET page == ParseU32(caps.page)
        absolute_path == PathJoin(Root, caps.path)
        diagram_name == FileStem(absolute_path)
        svg_path == PathJoin(get_result_dir_abs(cfg), SvgName(diagram_name, page))
    IN  [panics |-> page = None \/ diagram_name = None,
         src |-> absolute_path,
         page |-> page,
         art |-> svg_path,
         link |-> relative_path_from_chapter(cfg, Books[book].path[c], svg_path)]

NextMatch ==
    LET i == FindNext(content[cur], pos)
    IN  IF i = 0 THEN NoMatch ELSE MatchAt(content[cur], i)

\* The text replace_all has assembled once the match m is substituted.
Spliced(m, r) == out \o SubSeq(content[cur], pos, m.start - 1) \o Snippet(r.link)

Call(m, r, regen, wrote) ==
    [ch |-> cur, pos |-> m.start, src |-> r.src, page |-> r.page, art |-> r.art,
     link |-> r.link, regen |-> regen, wrote |-> wrote]

\* What should_generate reads of the two files.
Check(input, output, regen) ==
    [called |-> TRUE,
     exists |-> output \in DOMAIN art,
     src_ok |-> input \in DOMAIN srcM,
     src_t |-> IF input \in DOMAIN srcM THEN srcM[input] ELSE 0,
     art_ok |-> output \in DOMAIN art /\ art[output].mtime_ok,
     art_t |-> IF output \in DOMAIN art /\ art[output].mtime_ok THEN art[output].mtime ELSE 0,
     regen |-> regen]

\* ------------------------------------------------------------- the walk

\* A walk that puts a chapter's sub-items behind the items already pending.
EnterChapterLast(stk, subs) == stk \o <<subs>>

\* process_chapter's loop over ch.sub_items: the sub-items are iterated
\* before the caller's loop resumes.
EnterChapter(stk, subs) == <<subs>> \o stk

Init ==
    /\ \E p \in DOMAIN Projects :
          /\ book = Projects[p].book
          /\ cfg = Projects[p].cfg
          /\ text = Projects[p].text
    /\ content = text
    /\ pc = "idle"
    /\ run = 0
    /\ result = "none"
    /\ stack = <<>>
    /\ cur = 0
    /\ pos = 1
    /\ out = <<>>
    /\ clock = 1
    /\ \E ta \in {0, 1} : \E present \in SUBSET {PathJoin(Root, AX)} :
          srcM = [f \in present \cup {PathJoin(Root, BX)} |->
                     IF f = PathJoin(Root, AX) THEN ta ELSE 1]
    /\ \E have \in SUBSET {PathJoin(get_result_dir_abs(cfg), SvgName(<<"x">>, <<"0">>))} :
       \E ok \in BOOLEAN : \E t \in {0, 1} :
          /\ ok \/ t = 0
          /\ art = [f \in have |-> [mtime_ok |-> ok, mtime |-> t]]
          /\ dirMade = (have # {})
    /\ touched = FALSE
    /\ calls = <<>>
    /\ visited = <<>>
    /\ anyFailed = FALSE
    /\ lastCheck = NoCheck
    /\ lastExport = NoExport
    /\ startSrc = srcM
    /\ startArt = art
    /\ prevOut = text
    /\ prevDone = FALSE
    /\ prevWritten = {}

\* The host loads the book and calls run: the loop over book.sections starts.
Run ==
    /\ pc \in {"idle", "done", "failed", "panicked"}
    /\ run < MaxRuns
    /\ run' = run + 1
    /\ content' = text
    /\ stack' = <<Books[book].sections>>
    /\ pc' = "walk"
    /\ result' = "none"
    /\ cur' = 0
    /\ pos' = 1
    /\ out' = <<>>
    /\ calls' = <<>>
    /\ visited' = <<>>
    /\ anyFailed' = FALSE
    /\ lastCheck' = NoCheck
    /\ lastExport' = NoExport
    /\ startSrc' = srcM
    /\ startArt' = art
    /\ prevOut' = content
    /\ prevDone' = (pc = "done")
    /\ prevWritten' = {<<calls[k].src, calls[k].page>> : k \in {j \in 1..Len(calls) : calls[j].wrote}}
    /\ touched' = FALSE
    /\ UNCHANGED <<book, cfg, text, srcM, art, dirMade, clock>>

\* process_item on a chapter: process_chapter starts its replace_all.
ProcessItemChapter ==
    /\ pc = "walk"
    /\ stack # <<>> /\ Head(stack) # <<>>
    /\ Head(Head(stack)).kind = "Chapter"
    /\ stack' = <<Tail(Head(stack))>> \o Tail(stack)
    /\ cur' = Head(Head(stack)).ch
    /\ pos' = 1
    /\ out' = <<>>
    /\ pc' = "replace"
    /\ lastCheck' = NoCheck
    /\ lastExport' = NoExport
    /\ UNCHANGED <<book, cfg, text, content, run, result, srcM, art, dirMade, clock,
                   touched, calls, visited, startSrc, startArt, prevOut, prevDone,
                   prevWritten, anyFailed>>

\* process_item on any other item: Ok(()).
ProcessItemOther ==
    /\ pc = "walk"
    /\ stack # <<>> /\ Head(stack) # <<>>
    /\ Head(Head(stack)).kind # "Chapter"
    /\ stack' = <<Tail(Head(stack))>> \o Tail(stack)
    /\ lastCheck' = NoCheck
    /\ lastExport' = NoExport
    /\ UNCHANGED <<book, cfg, text, content, pc, run, result, cur, pos, out, srcM, art,
                   dirMade, clock, touched, calls, visited, startSrc, startArt,
                   prevOut, prevDone, prevWritten, anyFailed>>

\* process_match on the next match, where an unwrap panics: the process dies.
MatchPanics ==
    /\ pc = "replace"
    /\ \E m \in {NextMatch} :
          /\ m.ok
          /\ Resolve(cur, m).panics
    /\ pc' = "panicked"
    /\ lastCheck' = NoCheck
    /\ lastExport' = NoExport
    /\ UNCHANGED <<book, cfg, text, content, run, result, stack, cur, pos, out, srcM,
                   art, dirMade, clock, touched, calls, visited, anyFailed,
                   startSrc, startArt, prevOut, prevDone, prevWritten>>

\* process_match on the next match, cache hit: the artifact is reused.
MatchCacheHit ==
    /\ pc = "replace"
    /\ \E m \in {NextMatch} :
          /\ m.ok
          /\ \E r \in {Resolve(cur, m)} :
                /\ ~r.panics
                /\ ~should_generate(r.src, r.art)
                /\ out' = Spliced(m, r)
                /\ pos' = m.end
                /\ calls' = Append(calls, Call(m, r, FALSE, FALSE))
                /\ lastCheck' = Check(r.src, r.art, FALSE)
    /\ dirMade' = TRUE
    /\ lastExport' = NoExport
    /\ UNCHANGED <<book, cfg, text, content, pc, run, result, stack, cur, srcM, art,
                   clock, touched, visited, anyFailed, startSrc, startArt,
                   prevOut, prevDone, prevWritten>>

\* process_match on the next match, cache miss: the renderer runs.  It can
\* write the artifact only when it starts and its input file exists.
MatchRegenerates ==
    /\ pc = "replace"
    /\ \E m \in {NextMatch} :
          /\ m.ok
          /\ \E r \in {Resolve(cur, m)} :
                /\ ~r.panics
                /\ should_generate(r.src, r.art)
                /\ \E o \in Outcomes :
                     /\ o.wrote => r.src \in DOMAIN srcM
                     /\ LET after == IF o.wrote
                                     THEN [f \in DOMAIN art \cup {r.art} |->
                                             IF f = r.art
                                             THEN [mtime_ok |-> TRUE, mtime |-> clock]
                                             ELSE art[f]]
                                     ELSE art
                            res == drawio_export(o.launched, o.exit_ok, r.art \in DOMAIN after)
                        IN  /\ art' = after
                            /\ lastExport' = [called |-> TRUE, launched |-> o.launched,
                                              exit_ok |-> o.exit_ok,
                                              existed_after |-> r.art \in DOMAIN after,
                                              result |-> res]
                            /\ calls' = Append(calls, Call(m, r, TRUE, o.wrote))
                            /\ anyFailed' = (\/ anyFailed
                                             \/ ~o.launched
                                             \/ ~o.exit_ok
                                             \/ r.art \notin DOMAIN after)
                            /\ pc' = after_export(res)
                            /\ result' = IF after_export(res) = "failed" THEN "Err" ELSE result
                /\ out' = Spliced(m, r)
                /\ pos' = m.end
                /\ lastCheck' = Check(r.src, r.art, TRUE)
    /\ dirMade' = TRUE
    /\ UNCHANGED <<book, cfg, text, content, run, stack, cur, srcM, clock, touched,
                   visited, startSrc, startArt, prevOut, prevDone, prevWritten>>

\* replace_all finds no further match: the chapter's content is replaced and
\* the loop over its sub-items starts.
FinishChapter ==
    /\ pc = "replace"
    /\ ~NextMatch.ok
    /\ content' = [content EXCEPT ![cur] = out \o SubSeq(content[cur], pos, Len(content[cur]))]
    /\ visited' = Append(visited, cur)
    /\ stack' = EnterChapter(stack, Books[book].subs[cur])
    /\ pc' = "walk"
    /\ lastCheck' = NoCheck
    /\ lastExport' = NoExport
    /\ UNCHANGED <<book, cfg, text, run, result, cur, pos, out, srcM, art, dirMade,
                   clock, touched, calls, startSrc, startArt, prevOut, prevDone,
                   prevWritten, anyFailed>>

\* A loop over sub-items ends: process_chapter returns Ok(()) to its caller.
ReturnFromChapter ==
    /\ pc = "walk"
    /\ Len(stack) > 1 /\ Head(stack) = <<>>
    /\ stack' = Tail(stack)
    /\ lastCheck' = NoCheck
    /\ lastExport' = NoExport
    /\ UNCHANGED <<book, cfg, text, content, pc, run, result, cur, pos, out, srcM, art,
                   dirMade, clock, touched, calls, visited, startSrc, startArt,
                   prevOut, prevDone, prevWritten, anyFailed>>

\* The loop over book.sections ends: run returns Ok(book).
FinishRun ==
    /\ pc = "walk"
    /\ Len(stack) = 1 /\ Head(stack) = <<>>
    /\ stack' = <<>>
    /\ pc' = "done"
    /\ result' = "Ok"
    /\ lastCheck' = NoCheck
    /\ lastExport' = NoExport
    /\ UNCHANGED <<book, cfg, text, content, run, cur, pos, out, srcM, art, dirMade,
                   clock, touched, calls, visited, startSrc, startArt, prevOut,
                   prevDone, prevWritten, anyFailed>>

\* Between two builds the author saves one of the diagram sources.
TouchSource ==
    /\ pc \in {"done", "panicked"}
    /\ ~touched
    /\ \E f \in DOMAIN srcM :
          srcM' = [srcM EXCEPT ![f] = clock + 1]
    /\ clock' = clock + 1
    /\ touched' = TRUE
    /\ lastCheck' = NoCheck
    /\ lastExport' = NoExport
    /\ UNCHANGED <<book, cfg, text, content, pc, run, result, stack, cur, pos, out,
                   art, dirMade, calls, visited, startSrc, startArt, prevOut, prevDone,
                   prevWritten, anyFailed>>

Next ==
    \/ Run
    \/ ProcessItemChapter
    \/ ProcessItemOther
    \/ MatchPanics
    \/ MatchCacheHit
    \/ MatchRegenerates
    \/ FinishChapter
    \/ ReturnFromChapter
    \/ FinishRun
    \/ TouchSource

Spec == Init /\ [][Next]_vars
\* ============================================================== properties

CallIdx == 1..Len(calls)
PairOf(c) == <<c.src, c.page>>
VisitedSet == {visited[k] : k \in 1..Len(visited)}

Contains(s, sub) ==
    \E i \in 1..(Len(s) - Len(sub) + 1) : SubSeq(s, i, i + Len(sub) - 1) = sub

IsPrefix(a, b) == Len(a) <= Len(b) /\ SubSeq(b, 1, Len(a)) = a

\* The number of directive occurrences of a text.
RECURSIVE CountMatches(_, _)
CountMatches(s, from) ==
    LET i == FindNext(s, from)
    IN  IF i = 0 THEN 0 ELSE 1 + CountMatches(s, MatchAt(s, i).end)

CallsIn(c) == {k \in CallIdx : calls[k].ch = c}

\* The chapters of a list of items in depth-first order, a chapter before
\* its sub-items and a subtree before the next sibling.
RECURSIVE Preorder(_, _)
Preorder(b, items) ==
    IF items = <<>> THEN <<>>
    ELSE (IF Head(items).kind = "Chapter"
          THEN <<Head(items).ch>> \o Preorder(b, b.subs[Head(items).ch])
          ELSE <<>>) \o Preorder(b, Tail(items))

BookOrder == Preorder(Books[book], Books[book].sections)

IndexIn(seq, x) == CHOOSE k \in 1..Len(seq) : seq[k] = x

\* The artifact was at least as new as its source, both times readable,
\* when this run started.
FreshAtStart(c) ==
    /\ c.art \in DOMAIN startArt
    /\ c.src \in DOMAIN startSrc
    /\ startArt[c.art].mtime_ok
    /\ startArt[c.art].mtime >= startSrc[c.src]

\* C1: a second build of the same text, made while the artifact of an
\* occurrence is fresh, does not invoke the renderer for that occurrence, and
\* a second build that returns leaves the text the first build left.
C1_Idempotent ==
    run >= 2 =>
        /\ \A k \in CallIdx : FreshAtStart(calls[k]) => (~calls[k].regen /\ ~calls[k].wrote)
        /\ (pc = "done" /\ prevDone) => content = prevOut

\* C1 witness: the second build ends with no source edited in between, and an
\* occurrence whose artifact the first build rendered is reused.
C1_Witness ==
    /\ pc = "done" /\ run = 2 /\ prevDone /\ clock = 1
    /\ content = prevOut /\ content # text
    /\ \E k \in CallIdx : PairOf(calls[k]) \in prevWritten /\ ~calls[k].regen

\* C2: should_generate regenerates exactly when the artifact is absent, or the
\* source's time is unreadable, or the artifact's time is unreadable, or the
\* source's time is strictly later than the artifact's.
C2_Oracle ==
    lastCheck.called =>
        lastCheck.regen =
            (CASE ~lastCheck.exists -> TRUE
               [] ~lastCheck.src_ok -> TRUE
               [] ~lastCheck.art_ok -> TRUE
               [] lastCheck.src_t > lastCheck.art_t -> TRUE
               [] OTHER -> FALSE)

\* C2 witness: both times readable and equal, the artifact is reused.
C2_Witness ==
    /\ lastCheck.called /\ lastCheck.exists /\ lastCheck.src_ok /\ lastCheck.art_ok
    /\ lastCheck.src_t = lastCheck.art_t
    /\ ~lastCheck.regen

\* C3: a renderer failure never ends the build with an error; the step that
\* met it goes on with the link in place, and a build that returns has
\* returned Ok with every chapter rewritten, every occurrence replaced and
\* the link of every occurrence in its chapter's text.
C3_FailureContained ==
    /\ anyFailed => (pc # "failed" /\ result # "Err")
    /\ (lastExport.called /\ (~lastExport.launched \/ ~lastExport.exit_ok \/ ~lastExport.existed_after)) =>
          /\ pc = "replace"
          /\ Len(out) >= Len(Snippet(calls[Len(calls)].link))
          /\ SubSeq(out, Len(out) - Len(Snippet(calls[Len(calls)].link)) + 1, Len(out))
                = Snippet(calls[Len(calls)].link)
    /\ pc = "done" =>
          /\ result = "Ok"
          /\ VisitedSet = Chapters
          /\ \A c \in Chapters :
                /\ FindNext(content[c], 1) = 0
                /\ Cardinality(CallsIn(c)) = CountMatches(text[c], 1)
          /\ \A k \in CallIdx : Contains(content[calls[k].ch], Snippet(calls[k].link))

\* C3 witness: a build with a failed render and other occurrences returns.
C3_Witness ==
    /\ pc = "done" /\ anyFailed /\ result = "Ok"
    /\ Len(calls) >= 3
    /\ \E k \in CallIdx : calls[k].regen /\ ~calls[k].wrote /\ calls[k].art \notin DOMAIN art

\* C4: a chapter whose text is a directive that misses a quote, misses the
\* page attribute or has a page that is not a number keeps its text, and
\* neither the cache check nor the renderer (nor process_match at all) is
\* reached for it; in front of a well-formed directive such text stays as it is.
C4_MalformedUnchanged ==
    \A c \in Chapters :
        /\ text[c] \in Malformed =>
              /\ content[c] = text[c]
              /\ CallsIn(c) = {}
              /\ ~(pc = "panicked" /\ cur = c)
        /\ (text[c] = TextMixed /\ c \in VisitedSet) =>
              /\ IsPrefix(TextNoCloseQuote \o <<" ">>, content[c])
              /\ Cardinality(CallsIn(c)) = 1

\* C4 witness: a build of a book of malformed directives returns.
C4_Witness ==
    /\ pc = "done"
    /\ \A c \in Chapters : text[c] \in Malformed
    /\ content = text /\ calls = <<>>

\* The number of directory segments of the parent of a chapter's location.
ParentSegments(path) ==
    IF path.some /\ path.comps # <<>> THEN Len(path.comps) - 1 ELSE 0

ExpectedLink(n, dir, file) ==
    (IF n = 0 THEN <<Dot, Slash>> ELSE Repeat(<<Dot, Dot, Slash>>, n))
        \o dir \o <<Slash>> \o file

CallDepth(k) == ParentSegments(Books[book].path[calls[k].ch])

LinkDepth0 == <<".", "/", "m", "d", "b", "o", "o", "k", "-", "d", "r", "a", "w", "i", "o", "/", "f", "o", "o", "-", "p", "a", "g", "e", "-", "1", ".", "s", "v", "g">>
LinkDepth2 == <<".", ".", "/", ".", ".", "/", "m", "d", "b", "o", "o", "k", "-", "d", "r", "a", "w", "i", "o", "/", "f", "o", "o", "-", "p", "a", "g", "e", "-", "1", ".", "s", "v", "g">>
FooPage1 == <<"f", "o", "o", "-", "p", "a", "g", "e", "-", "1", ".", "s", "v", "g">>

\* C5: the link of an occurrence is n times "../" (or "./" when n = 0, also
\* for a chapter without location), the cache directory's name and the
\* artifact's file name, n being the number of directories above the chapter;
\* foo-page-1.svg is ./mdbook-drawio/foo-page-1.svg from depth 0 and
\* ../../mdbook-drawio/foo-page-1.svg from depth 2; chapters at different
\* depths link to one artifact differently.
C5_PathResolver ==
    /\ \A k \in CallIdx :
          /\ calls[k].link =
                ExpectedLink(CallDepth(k), IF cfg = None THEN DefaultResultDir ELSE cfg,
                             SvgName(FileStem(calls[k].src), calls[k].page))
          /\ (cfg = None /\ FileName(calls[k].art) = FooPage1 /\ CallDepth(k) = 0)
                => calls[k].link = LinkDepth0
          /\ (cfg = None /\ FileName(calls[k].art) = FooPage1 /\ CallDepth(k) = 2)
                => calls[k].link = LinkDepth2
    /\ \A k, j \in CallIdx :
          (calls[k].art = calls[j].art /\ CallDepth(k) # CallDepth(j))
              => calls[k].link # calls[j].link

\* C5 witness: foo-page-1.svg linked from depth 2 after a link from a chapter
\* without depth.
C5_Witness ==
    \E k, j \in CallIdx :
        /\ CallDepth(k) = 2 /\ calls[k].link = LinkDepth2
        /\ CallDepth(j) = 0

\* C6: drawio_export returns Err exactly when the subprocess did not start,
\* exited with an error, or left no artifact.
C6_ExportReportsFailure ==
    lastExport.called =>
        ((lastExport.result = "Err") <=>
            (~lastExport.launched \/ ~lastExport.exit_ok \/ ~lastExport.existed_after))

\* C7: no text makes process_match panic.
C7_NeverPanics == pc # "panicked"

\* C8: within one build, once the renderer has written the artifact of a
\* (source, page) pair, no later occurrence of that pair, in any chapter,
\* regenerates it.
C8_WrittenOnce ==
    \A i, j \in CallIdx :
        (i < j /\ calls[i].wrote /\ PairOf(calls[i]) = PairOf(calls[j]))
            => (~calls[j].regen /\ ~calls[j].wrote)

\* C8 witness: a pair rendered in one chapter is reused in the same chapter
\* and in a later one.
C8_Witness ==
    \E i, j, k \in CallIdx :
        /\ i < j /\ j < k
        /\ calls[i].wrote
        /\ PairOf(calls[i]) = PairOf(calls[j]) /\ PairOf(calls[i]) = PairOf(calls[k])
        /\ calls[k].ch = calls[j].ch /\ calls[i].ch # calls[j].ch
        /\ ~calls[j].regen /\ ~calls[k].regen

\* C9: chapters are rewritten one at a time in depth-first order, a chapter
\* before its sub-items and a subtree before the next sibling; a chapter in
\* work is the next of that order and every chapter before it has no
\* occurrence left; the occurrences of a chapter are handled left to right
\* while it is in work; a build that returns has rewritten each chapter once.
C9_WalkOrder ==
    /\ IsPrefix(visited, BookOrder)
    /\ pc \in {"replace", "panicked"} =>
          /\ Len(visited) < Len(BookOrder)
          /\ cur = BookOrder[Len(visited) + 1]
          /\ \A c \in VisitedSet : FindNext(content[c], 1) = 0
    /\ \A k \in CallIdx :
          calls[k].ch \in VisitedSet \cup (IF pc \in {"replace", "panicked"} THEN {cur} ELSE {})
    /\ \A k \in CallIdx :
          k < Len(calls) =>
              \/ calls[k].ch = calls[k + 1].ch /\ calls[k].pos < calls[k + 1].pos
              \/ IndexIn(BookOrder, calls[k].ch) < IndexIn(BookOrder, calls[k + 1].ch)
    /\ pc = "done" =>
          /\ visited = BookOrder
          /\ \A c \in Chapters : Cardinality({k \in 1..Len(visited) : visited[k] = c}) = 1

\* C9 witness: a build of the book with a sub-chapter and a later sibling
\* returns, with two occurrences handled in one chapter.
C9_Witness ==
    /\ pc = "done" /\ book = 1 /\ visited = <<1, 2, 3>>
    /\ \E k \in CallIdx : k < Len(calls) /\ calls[k].ch = 2 /\ calls[k + 1].ch = 2

\* C10: occurrences that resolve to the same artifact file have the same
\* (source, page) pair.
C10_OneOwner ==
    \A i, j \in CallIdx :
        calls[i].art = calls[j].art => PairOf(calls[i]) = PairOf(calls[j])
====
